---------------------------- MODULE Spec2Model ----------------------------
(***************************************************************************)
(* A model of SheetUtils.js: the condition matcher (_matchConditions), the *)
(* table loader (getTable) and the operations that read and write a sheet. *)
(*                                                                         *)
(* JavaScript values are records [t, n, s]: t is the type tag, n the       *)
(* numeric payload and s the string payload.  Time values of Date objects  *)
(* are counted in whole days since the epoch (tag "date") or, for a Date   *)
(* built from a small number, in milliseconds (tag "datems").              *)
(***************************************************************************)
EXTENDS Integers, Sequences, FiniteSets, TLC

VARIABLES
    mRow,      \* matcher run: the row handed to _matchConditions
    mCond,     \* matcher run: the condition object
    mOut,      \* matcher run: whether the call returned, and the boolean it returned
    sheet,     \* the sheet's cells: sheet[1] is the header row, raw values
    bg,        \* background colour of each grid row
    token,     \* the object highlightRows returned last (or NoToken)
    last       \* record of the last operation: inputs, snapshot, calls, outcome

vars == <<mRow, mCond, mOut, sheet, bg, token, last>>

---------------------------------------------------------------------------
(* JavaScript values *)

Num(n)     == [t |-> "num", n |-> n, s |-> ""]
Str(s)     == [t |-> "str", n |-> 0, s |-> s]
Undef      == [t |-> "undef", n |-> 0, s |-> ""]
NaN        == [t |-> "nan", n |-> 0, s |-> ""]
DateV(d)   == [t |-> "date", n |-> d, s |-> ""]
DateMs(ms) == [t |-> "datems", n |-> ms, s |-> ""]
InvalidDate == [t |-> "baddate", n |-> 0, s |-> ""]

\* 2020-01-01T00:00Z and 2020-01-02T00:00Z in days since the epoch
Day20200101 == DateV(18262)
Day20200102 == DateV(18263)

\* /^\d{4}-\d{2}-\d{2}$/.test(s), on the strings of the model
IsIsoDate(s) == s \in {"2020-01-01", "2020-01-02"}

\* /^\d{2}-\d{2}-\d{4}$/.test(s), on the strings of the model
IsDmyDate(s) == s \in {"01-02-2020"}

\* /^A/.test(s), on the strings of the model
StartsWithA(s) == s \in {"Active", "Asha"}

\* Number(s) for a string s: the strings of the model that are numerals
StrToNumber(s) ==
    CASE s = "2"  -> Num(2)
      [] s = "3"  -> Num(3)
      [] s = "4"  -> Num(4)
      [] s = "7"  -> Num(7)
      [] s = "17" -> Num(17)
      [] s = "25" -> Num(25)
      [] s = ""   -> Num(0)
      [] OTHER    -> NaN

\* Number(v)
ToNumber(v) ==
    CASE v.t = "num"    -> v
      [] v.t = "str"    -> StrToNumber(v.s)
      [] v.t = "null"   -> Num(0)
      [] v.t = "date"   -> v
      [] v.t = "datems" -> v
      [] OTHER          -> NaN

\* String(v), as RegExp.prototype.test coerces its argument
ToStr(v) ==
    CASE v.t = "str"   -> v.s
      [] v.t = "num"   -> ToString(v.n)
      [] v.t = "undef" -> "undefined"
      [] OTHER         -> "object"

\* new Date(v) for a value a table row can hold
NewDate(v) ==
    CASE v.t = "num" -> DateMs(v.n)
      [] v.t = "str" /\ v.s = "2020-01-01" -> Day20200101
      [] v.t = "str" /\ v.s = "2020-01-02" -> Day20200102
      [] v.t = "str" /\ v.s = "01-02-2020" -> Day20200102
      [] v.t \in {"date", "datems"} -> v
      [] OTHER -> InvalidDate

\* d1.getTime() === d2.getTime(): NaN (an invalid date) equals nothing
SameInstant(d1, d2) ==
    /\ d1.t \in {"date", "datems"}
    /\ d2.t \in {"date", "datems"}
    /\ d1 = d2

\* a === b for primitives (Date objects of a matcher are never the row's own)
_compareValues(a, b) ==
    /\ a.t \notin {"nan", "date", "datems", "baddate"}
    /\ a = b

\* Array.prototype.includes (SameValueZero: NaN is found)
Includes(list, v) ==
    \E i \in 1..Len(list) :
        /\ list[i] = v
        /\ v.t \notin {"date", "datems", "baddate"}

\* the predicate a => a > 18 of the README, on the value it is handed
Gt18(a) ==
    LET x == ToNumber(a) IN
    CASE x.t = "num"    -> x.n > 18
      [] x.t = "date"   -> x.n > 0
      [] x.t = "datems" -> x.n > 18
      [] OTHER          -> FALSE

---------------------------------------------------------------------------
(* Conditions.  An object is [k |-> "obj", e |-> <<key, value>> pairs in   *)
(* key order]; null/undefined is [k |-> "null"].  A column matcher is one  *)
(* of the records built below.                                             *)

Null      == [k |-> "null", e |-> <<>>]
Obj(e)    == [k |-> "obj", e |-> e]
Lit(v)    == [k |-> "lit", v |-> v]
List(l)   == [k |-> "list", l |-> l]
RegexA    == [k |-> "regex", name |-> "^A"]
FnGt18    == [k |-> "fn", name |-> "gt18"]
DateM(d)  == [k |-> "date", v |-> d]

Keys(c)      == {c.e[i][1] : i \in 1..Len(c.e)}
HasKey(c, k) == c.k = "obj" /\ k \in Keys(c)
Get(c, k)    == c.e[CHOOSE i \in 1..Len(c.e) : c.e[i][1] = k][2]

\* row[key]
Prop(row, key) == IF key \in DOMAIN row THEN row[key] ELSE Undef

\* line 225: !conditions || Object.keys(conditions).length === 0
isEmptyCond(conditions) ==
    conditions.k = "null" \/ Len(conditions.e) = 0

\* line 225: return true
emptyResult_false == FALSE
emptyResult == TRUE

\* line 228: "rowID" in conditions
hasRowID(conditions) == HasKey(conditions, "rowID")

\* lines 229-233: the direct rowID match
rowIDMatch_coerced(row, condVal) ==
    IF condVal.k = "list"
    THEN \E i \in 1..Len(condVal.l) : ToNumber(condVal.l[i]) = ToNumber(Prop(row, "rowID"))
    ELSE ToNumber(Prop(row, "rowID")) = ToNumber(condVal.v)
rowIDMatch(row, condVal) ==
    IF condVal.k = "list"
    THEN Includes(condVal.l, Prop(row, "rowID"))
    ELSE _compareValues(Prop(row, "rowID"), ToNumber(condVal.v))

\* lines 256-277: one column clause
fieldMatch(row, key, condVal) ==
    LET rowVal == Prop(row, key) IN
    CASE condVal.k = "regex" -> StartsWithA(ToStr(rowVal))
      [] condVal.k = "fn" ->
            LET fnVal == IF IsDmyDate(ToStr(rowVal)) THEN NewDate(rowVal) ELSE rowVal
            IN  Gt18(fnVal)
      [] condVal.k = "list" ->
            \E i \in 1..Len(condVal.l) :
                IF condVal.l[i].t \in {"date", "datems", "baddate"}
                THEN SameInstant(NewDate(rowVal), condVal.l[i])
                ELSE _compareValues(rowVal, condVal.l[i])
      [] condVal.k = "date" -> SameInstant(NewDate(rowVal), condVal.v)
      [] OTHER -> _compareValues(rowVal, condVal.v)

\* line 240: the AND clause passes iff the nested condition matches
andClause_ignored(nested) == TRUE
andClause(nested) == nested

\* lines 243-250: the OR clause passes iff some sub-key matched
orClause_all(results) == \A i \in 1..Len(results) : results[i]
orClause(results) == \E i \in 1..Len(results) : results[i]

\* line 253: the NOT clause passes iff the nested condition does not match
notClause_same(nested) == nested
notClause(nested) == ~nested

RECURSIVE _matchConditions(_, _)

\* lines 244-249: each sub-key is tried as the condition { [subKey]: value }
orResults(row, condVal) ==
    IF condVal.k # "obj" THEN <<>>
    ELSE [i \in 1..Len(condVal.e) |-> _matchConditions(row, Obj(<<condVal.e[i]>>))]

\* lines 236-279: one key of the loop
clause(row, key, condVal) ==
    CASE key = "AND" -> andClause(_matchConditions(row, condVal))
      [] key = "OR"  -> orClause(orResults(row, condVal))
      [] key = "NOT" -> notClause(_matchConditions(row, condVal))
      [] OTHER       -> fieldMatch(row, key, condVal)

\* lines 224-282
_matchConditions(row, conditions) ==
    IF isEmptyCond(conditions) THEN emptyResult
    ELSE IF hasRowID(conditions) THEN rowIDMatch(row, Get(conditions, "rowID"))
    ELSE \A i \in 1..Len(conditions.e) :
            clause(row, conditions.e[i][1], conditions.e[i][2])

---------------------------------------------------------------------------
(* The matcher as a pure function: the inputs are drawn in MatchInit and   *)
(* MatchAct applies _matchConditions to them.                              *)

MaxRowID == 3

\* rows as getTable builds them; rowID is a cell value when a header is named rowID
MRows ==
    [rowID  : {Num(i) : i \in 2..MaxRowID} \cup {Str("Asha")},
     status : {Str("Active"), Str("Pending")},
     age    : {Num(25), Num(17)},
     dob    : {Str("2020-01-01"), Str("01-02-2020")}]

\* column clauses
ColEntries ==
    { <<"status", Lit(Str("Active"))>>,
      <<"status", List(<<Str("Open"), Str("Pending")>>)>>,
      <<"status", RegexA>>,
      <<"age", FnGt18>>,
      <<"dob", DateM(Day20200101)>>,
      <<"dob", List(<<Day20200102>>)>> }

\* rowID selectors
RowIDEntries ==
    { <<"rowID", List(<<Num(2), Num(MaxRowID)>>)>>,
      <<"rowID", List(<<Str("3")>>)>>,
      <<"rowID", List(<<>>)>>,
      <<"rowID", Lit(Str("3"))>> }

\* conditions nested under AND / OR / NOT inside a two-key object
InnerConds ==
    {Null, Obj(<<>>)} \cup
    {Obj(<<e>>) : e \in { <<"status", Lit(Str("Active"))>>, <<"age", FnGt18>>,
                          <<"dob", FnGt18>>, <<"rowID", Lit(Num(3))>> }}

Entries ==
    ColEntries \cup RowIDEntries \cup
    {<<k, c>> : k \in {"AND", "OR", "NOT"}, c \in InnerConds}

\* condition objects of at most two keys (keys of an object are distinct)
BaseConds ==
    {Null, Obj(<<>>)} \cup {Obj(<<e>>) : e \in Entries} \cup
    {Obj(<<e1, e2>>) : <<e1, e2>> \in {p \in Entries \X Entries : p[1][1] # p[2][1]}}

Wrap(shape, c) ==
    CASE shape = "AND"    -> Obj(<< <<"AND", c>> >>)
      [] shape = "OR"     -> Obj(<< <<"OR", c>> >>)
      [] shape = "NOT"    -> Obj(<< <<"NOT", c>> >>)
      [] shape = "NOTNOT" -> Obj(<< <<"NOT", Obj(<< <<"NOT", c>> >>)>> >>)
      [] OTHER            -> c

MConds == {Wrap(sh, c) : sh \in {"plain", "AND", "OR", "NOT", "NOTNOT"}, c \in BaseConds}

NoOut == [done |-> FALSE, r |-> FALSE]

MatchInit ==
    /\ mRow \in MRows
    /\ mCond \in MConds
    /\ mOut = NoOut
    /\ sheet = <<>>
    /\ bg = <<>>
    /\ token = Null
    /\ last = Null

MatchAct ==
    /\ ~mOut.done
    /\ mOut' = [done |-> TRUE, r |-> _matchConditions(mRow, mCond)]
    /\ UNCHANGED <<mRow, mCond, sheet, bg, token, last>>

MatchNext == MatchAct

MatchSpec == MatchInit /\ [][MatchNext]_vars

---------------------------------------------------------------------------
(* The sheet.  sheet[1] is the header row and sheet[2..] the data rows, as *)
(* raw cell values; cells beyond the last row with content are blank.      *)

MaxRows == 3

Blank == Str("")

IsBlankRow(r) == \A c \in 1..Len(r) : r[c] = Blank

\* the rows up to the last one with content (all that getDataRange covers)
RECURSIVE getDataRange(_)
getDataRange(sh) ==
    IF Len(sh) > 1 /\ IsBlankRow(sh[Len(sh)])
    THEN getDataRange(SubSeq(sh, 1, Len(sh) - 1))
    ELSE sh

getLastColumn(sh) == Len(sh[1])

\* the value of cell (r, c), blank beyond the data range
CellAt(sh, r, c) == IF r <= Len(sh) THEN sh[r][c] ELSE Blank

\* getDisplayValues: every cell as the string the sheet shows
Display(v) == ToStr(v)

\* lines 18-21: the value a row object gets for a displayed cell
coerceCell(val) ==
    IF IsIsoDate(val) THEN Str(val)
    ELSE IF StrToNumber(val).t = "num" /\ val # "" THEN StrToNumber(val)
    ELSE Str(val)

\* lines 16-23: the row object of the data row at 0-based index idx
RECURSIVE rowObject(_, _, _, _)
rowObject(headers, row, idx, i) ==
    IF i = 0 THEN ("rowID" :> Num(idx + 2))
    ELSE (Display(headers[i]) :> coerceCell(Display(row[i]))) @@ rowObject(headers, row, idx, i - 1)

\* lines 11-24 (the handle check of line 9 is in the actions)
getTable(sh) ==
    LET values == getDataRange(sh) IN
    IF Len(values) < 2 THEN <<>>
    ELSE [i \in 1..(Len(values) - 1) |->
            rowObject(values[1], values[i + 1], i - 1, Len(values[1]))]

\* lines 38-41: the projection on column_names (NoCols: the argument is absent)
NoCols == <<"*">>
project(r, column_names) ==
    IF column_names = NoCols THEN r
    ELSE [c \in {column_names[i] : i \in 1..Len(column_names)} |-> Prop(r, c)]

\* line 36: the rows that are kept
keepRow(row, conditions) == _matchConditions(row, conditions)

\* lines 35-43
getRowsFromTable(table, conditions, column_names) ==
    LET kept == SelectSeq(table, LAMBDA row : keepRow(row, conditions))
    IN  [i \in 1..Len(kept) |-> project(kept[i], column_names)]

\* line 71: headers.indexOf(key), 0 when the key is no header (JavaScript: -1)
indexOf(headers, key) ==
    IF \E i \in 1..Len(headers) : headers[i] = Str(key)
    THEN CHOOSE i \in 1..Len(headers) :
            /\ headers[i] = Str(key)
            /\ \A j \in 1..(i - 1) : headers[j] # Str(key)
    ELSE 0

\* lines 68-75: the block that setValues writes back
updatedValues_everyRow(values, table, conditions, data) ==
    [r \in 1..Len(values) |->
        [c \in 1..Len(values[r]) |->
            IF /\ r >= 2
               /\ \E key \in DOMAIN data : indexOf(values[1], key) = c
            THEN data[CHOOSE key \in DOMAIN data : indexOf(values[1], key) = c]
            ELSE values[r][c]]]
updatedValues(values, table, conditions, data) ==
    [r \in 1..Len(values) |->
        [c \in 1..Len(values[r]) |->
            IF /\ r >= 2
               /\ _matchConditions(table[r - 1], conditions)
               /\ \E key \in DOMAIN data : indexOf(values[1], key) = c
            THEN data[CHOOSE key \in DOMAIN data : indexOf(values[1], key) = c]
            ELSE values[r][c]]]

\* line 87: the row that insertRow appends
newRow(headers, data) ==
    [i \in 1..Len(headers) |->
        IF Display(headers[i]) \in DOMAIN data THEN data[Display(headers[i])] ELSE Blank]

\* lines 101-103: the positions of the matching rows, in table order
rowsToDelete(table, conditions) ==
    SelectSeq([i \in 1..Len(table) |-> i + 1],
              LAMBDA p : _matchConditions(table[p - 1], conditions))

\* line 105: rowsToDelete.reverse()
deleteOrder_ascending(rows) == rows
deleteOrder(rows) == [i \in 1..Len(rows) |-> rows[Len(rows) + 1 - i]]

\* sheetObj.deleteRow(r): the rows below move up by one
deleteRow(sh, r) ==
    IF r > Len(sh) THEN sh
    ELSE SubSeq(sh, 1, r - 1) \o SubSeq(sh, r + 1, Len(sh))

\* line 105: the deleteRow calls, in order
RECURSIVE applyDeletes(_, _)
applyDeletes(sh, calls) ==
    IF calls = <<>> THEN sh
    ELSE applyDeletes(deleteRow(sh, Head(calls)), Tail(calls))

---------------------------------------------------------------------------
(* The grid's backgrounds and the highlight token *)

White   == "white"
Yellow  == "#fff59d"
NoToken == [rowIDs |-> <<>>, color |-> "", null |-> TRUE]

\* the grid has GridRows rows; bg[r] is the background of row r
GridRows == MaxRows + 2

\* getRange(id, 1, 1, n) names a row of the grid, or throws
validRow(id) == id.t = "num" /\ id.n >= 1 /\ id.n <= GridRows

\* deleteRow(r) on the backgrounds: the formats below move up with their rows
deleteRowBg(b, r) ==
    SubSeq(b, 1, r - 1) \o SubSeq(b, r + 1, Len(b)) \o <<White>>

RECURSIVE applyDeletesBg(_, _)
applyDeletesBg(b, calls) ==
    IF calls = <<>> THEN b
    ELSE applyDeletesBg(deleteRowBg(b, Head(calls)), Tail(calls))

\* line 164: the rowIDs of the matching rows
matchedRowIDs(table, conditions) ==
    LET matches == SelectSeq(table, LAMBDA row : _matchConditions(row, conditions))
    IN  [i \in 1..Len(matches) |-> matches[i].rowID]

\* lines 167-169: the rows painted before getRange throws, if it does
paintedPrefix(rowIDs) ==
    IF \A i \in 1..Len(rowIDs) : validRow(rowIDs[i]) THEN rowIDs
    ELSE SubSeq(rowIDs, 1,
            (CHOOSE i \in 1..Len(rowIDs) :
                /\ ~validRow(rowIDs[i])
                /\ \A j \in 1..(i - 1) : validRow(rowIDs[j])) - 1)

\* line 194: the rows of the range "A<id>:<lastColumn>".  In A1 notation the text
\* after the colon is a bare row number (as in "A2:2", row 2 from column A on), so the
\* range runs between row id and row lastColumn
a1Rows(id, lastColumn) ==
    IF id.n <= lastColumn THEN id.n..lastColumn ELSE lastColumn..id.n

\* lines 193-195: every row one of the ranges covers
clearedRows(rowIDs, lastColumn) ==
    UNION {a1Rows(rowIDs[i], lastColumn) : i \in 1..Len(rowIDs)}

---------------------------------------------------------------------------
(* The record of the last call *)

Call(op, handle, cond, data, cols, snap, calls, out, err) ==
    [op |-> op, handle |-> handle, cond |-> cond, data |-> data, cols |-> cols,
     snap |-> snap, calls |-> calls, out |-> out, err |-> err]

NoData == [k \in {} |-> Undef]
NoCall == Call("none", TRUE, Null, NoData, NoCols, <<>>, <<>>, <<>>, "none")

\* the error of `new Error(...)` thrown by the code's own argument checks,
\* and the one the runtime throws on a property read of undefined
InvalidArgument == "InvalidArgument"
TypeError == "TypeError"
RangeError == "RangeError"

Failed(op, err) == Call(op, FALSE, Null, NoData, NoCols, sheet, <<>>, <<>>, err)

\* lines 8-25
GetTableOp(h) ==
    /\ last' = IF h THEN Call("getTable", h, Null, NoData, NoCols, sheet, <<>>,
                              getTable(sheet), "none")
               ELSE Failed("getTable", InvalidArgument)
    /\ UNCHANGED <<sheet, bg, token>>

\* lines 35-43, on the table loaded from the sheet
GetRowsOp(conditions, column_names) ==
    /\ last' = Call("getRowsFromTable", TRUE, conditions, NoData, column_names, sheet, <<>>,
                    getRowsFromTable(getTable(sheet), conditions, column_names), "none")
    /\ UNCHANGED <<sheet, bg, token>>

\* lines 63-78
SetValuesOp(h, conditions, data) ==
    IF ~h
    THEN /\ last' = Failed("setValues", TypeError)
         /\ UNCHANGED <<sheet, bg, token>>
    ELSE LET values == getDataRange(sheet)
             table  == getTable(sheet)
         IN  /\ sheet' = getDataRange(updatedValues(values, table, conditions, data))
             /\ last' = Call("setValues", h, conditions, data, NoCols, sheet, <<>>, <<>>, "none")
             /\ UNCHANGED <<bg, token>>

\* lines 85-89
InsertRowOp(h, data) ==
    IF ~h
    THEN /\ last' = Failed("insertRow", TypeError)
         /\ UNCHANGED <<sheet, bg, token>>
    ELSE /\ Len(sheet) <= MaxRows
         /\ sheet' = getDataRange(Append(sheet, newRow(sheet[1], data)))
         /\ last' = Call("insertRow", h, Null, data, NoCols, sheet, <<>>, <<>>, "none")
         /\ UNCHANGED <<bg, token>>

\* lines 96-106
DeleteRowsOp(h, conditions) ==
    IF ~h
    THEN /\ last' = Failed("deleteRows", InvalidArgument)
         /\ UNCHANGED <<sheet, bg, token>>
    ELSE LET calls == deleteOrder(rowsToDelete(getTable(sheet), conditions))
         IN  /\ sheet' = getDataRange(applyDeletes(sheet, calls))
             /\ bg' = applyDeletesBg(bg, calls)
             /\ last' = Call("deleteRows", h, conditions, NoData, NoCols, sheet,
                             [i \in 1..Len(calls) |-> Num(calls[i])], <<>>, "none")
             /\ UNCHANGED token

\* lines 152-181
HighlightRowsOp(h, conditions) ==
    IF ~h
    THEN /\ last' = Failed("highlightRows", InvalidArgument)
         /\ UNCHANGED <<sheet, bg, token>>
    ELSE LET rowIDs  == matchedRowIDs(getTable(sheet), conditions)
             painted == paintedPrefix(rowIDs)
             thrown  == painted # rowIDs
         IN  /\ bg' = [r \in 1..Len(bg) |->
                        IF \E i \in 1..Len(painted) : painted[i].n = r THEN Yellow ELSE bg[r]]
             /\ token' = IF thrown THEN token
                         ELSE IF rowIDs = <<>> THEN NoToken
                         ELSE [rowIDs |-> rowIDs, color |-> Yellow, null |-> FALSE]
             /\ last' = Call("highlightRows", h, conditions, NoData, NoCols, sheet,
                             painted, rowIDs, IF thrown THEN RangeError ELSE "none")
             /\ UNCHANGED sheet

\* lines 188-198
ClearHighlightOp(h, highlightObj) ==
    IF ~h \/ highlightObj.null
    THEN /\ last' = Failed("clearHighlight", InvalidArgument)
         /\ UNCHANGED <<sheet, bg, token>>
    ELSE LET rows == clearedRows(highlightObj.rowIDs, getLastColumn(sheet))
         IN  /\ bg' = [r \in 1..Len(bg) |-> IF r \in rows THEN White ELSE bg[r]]
             /\ last' = Call("clearHighlight", h, Null, NoData, NoCols, sheet,
                             highlightObj.rowIDs,
                             SelectSeq([r \in 1..Len(bg) |-> Num(r)], LAMBDA v : v.n \in rows),
                             "none")
             /\ UNCHANGED <<sheet, token>>

---------------------------------------------------------------------------
(* The sheet operations without highlighting *)

Headers ==
    { <<Str("status"), Str("age")>>,
      <<Str("rowID"), Str("status")>>,
      <<Str("status"), Str("status")>>,
      <<Str("status"), Num(7)>> }

InsertData ==
    { ("7" :> Num(25)) @@ [status |-> Str("Active"), age |-> Num(25), rowID |-> Num(4)],
      [status |-> Str("Pending"), age |-> Num(17), rowID |-> Str("Asha")] }

UpdateData ==
    { ("7" :> Num(17)) @@ [status |-> Str("Done"), country |-> Str("X")],
      ("7" :> Blank) @@ [status |-> Blank, age |-> Blank, rowID |-> Blank] }

SheetConds ==
    { Null, Obj(<<>>),
      Obj(<< <<"status", Lit(Str("Active"))>> >>),
      Obj(<< <<"age", FnGt18>> >>),
      Obj(<< <<"rowID", List(<<Num(3), Num(4)>>)>> >>),
      Obj(<< <<"NOT", Obj(<< <<"rowID", Lit(Num(3))>> >>)>> >>) }

ColumnNames == {NoCols, <<"status">>}

Init ==
    /\ mRow = [rowID |-> Num(2)]
    /\ mCond = Null
    /\ mOut = NoOut
    /\ sheet \in {<<hd>> : hd \in Headers}
    /\ bg = [r \in 1..GridRows |-> White]
    /\ token = NoToken
    /\ last = NoCall

GetTable ==
    /\ last.op = "none"
    /\ \E h \in BOOLEAN : GetTableOp(h)
    /\ UNCHANGED <<mRow, mCond, mOut>>
GetRows ==
    /\ last.op = "none"
    /\ \E c \in SheetConds, n \in ColumnNames : GetRowsOp(c, n)
    /\ UNCHANGED <<mRow, mCond, mOut>>
SetValues ==
    /\ last.op = "none"
    /\ \E h \in BOOLEAN, c \in SheetConds, d \in UpdateData : SetValuesOp(h, c, d)
    /\ UNCHANGED <<mRow, mCond, mOut>>
InsertRow ==
    /\ last.op = "none"
    /\ \E h \in BOOLEAN, d \in InsertData : InsertRowOp(h, d)
    /\ UNCHANGED <<mRow, mCond, mOut>>
DeleteRows ==
    /\ last.op = "none"
    /\ \E h \in BOOLEAN, c \in SheetConds : DeleteRowsOp(h, c)
    /\ UNCHANGED <<mRow, mCond, mOut>>

\* the caller takes the outcome of the call; the next call can start
Return ==
    /\ last.op # "none"
    /\ last' = NoCall
    /\ UNCHANGED <<mRow, mCond, mOut, sheet, bg, token>>

Next == Return \/ GetTable \/ GetRows \/ SetValues \/ InsertRow \/ DeleteRows

Spec == Init /\ [][Next]_vars

---------------------------------------------------------------------------
(* The sheet operations with highlighting, on fewer sheets and inputs *)

\* sheets whose rowID is the row position (no column is named rowID)
HlHeaders == { <<Str("status"), Str("age")>>, <<Str("status"), Str("status")>> }

HlConds ==
    { Obj(<<>>),
      Obj(<< <<"status", Lit(Str("Active"))>> >>),
      Obj(<< <<"rowID", List(<<Num(3), Num(4)>>)>> >>) }

HlInit ==
    /\ mRow = [rowID |-> Num(2)]
    /\ mCond = Null
    /\ mOut = NoOut
    /\ sheet \in {<<hd>> : hd \in HlHeaders}
    /\ bg = [r \in 1..GridRows |-> White]
    /\ token = NoToken
    /\ last = NoCall

HlSetValues ==
    /\ last.op = "none"
    /\ \E c \in HlConds :
          SetValuesOp(TRUE, c, [status |-> Str("Done")])
    /\ UNCHANGED <<mRow, mCond, mOut>>

HlDeleteRows ==
    /\ last.op = "none"
    /\ \E c \in HlConds : DeleteRowsOp(TRUE, c)
    /\ UNCHANGED <<mRow, mCond, mOut>>

HighlightRows ==
    /\ last.op = "none"
    /\ \E h \in BOOLEAN, c \in HlConds : HighlightRowsOp(h, c)
    /\ UNCHANGED <<mRow, mCond, mOut>>

ClearHighlight ==
    /\ last.op = "none"
    /\ \E h \in BOOLEAN : ClearHighlightOp(h, token)
    /\ UNCHANGED <<mRow, mCond, mOut>>

HlNext ==
    Return \/ InsertRow \/ HlSetValues \/ HlDeleteRows \/ HighlightRows \/ ClearHighlight

HlSpec == HlInit /\ [][HlNext]_vars

---------------------------------------------------------------------------
(* Properties of the matcher, under MatchSpec *)

\* the condition { key: value } made of one entry of an object
Single(e) == Obj(<<e>>)

\* mCond is { <key>: v } for one of the composite keys
IsComposite(key) ==
    /\ mOut.done
    /\ mCond.k = "obj"
    /\ Len(mCond.e) = 1
    /\ mCond.e[1][1] = key

Nested == mCond.e[1][2]

\* C1: with a rowID key in the condition object the result is decided by the rowID
\* matcher alone: a list matches iff it contains row.rowID by exact equality, any
\* other matcher iff row.rowID equals the matcher coerced to a number; the other keys
\* of the object (column clauses, AND, OR, NOT) have no influence.
C1_RowIDDecides ==
    (mOut.done /\ HasKey(mCond, "rowID")) =>
        LET m == Get(mCond, "rowID") IN
        mOut.r = IF m.k = "list"
                 THEN \E i \in 1..Len(m.l) : m.l[i] = mRow.rowID
                 ELSE mRow.rowID = ToNumber(m.v)

\* C1 witness: a two-key object whose rowID selector matches although its other
\* clause, taken alone, does not match the row.
C1_Witness ==
    /\ mOut.done
    /\ HasKey(mCond, "rowID")
    /\ Len(mCond.e) = 2
    /\ mOut.r
    /\ \E i \in 1..2 : mCond.e[i][1] # "rowID" /\ ~_matchConditions(mRow, Single(mCond.e[i]))

\* C2 as stated: for any two distinct keys a, b (rowID included),
\* matches(R, {AND: {a: X, b: Y}}) = matches(R, {a: X}) /\ matches(R, {b: Y}).
C2_AndOfAnyTwoKeys ==
    (IsComposite("AND") /\ Nested.k = "obj" /\ Len(Nested.e) = 2) =>
        mOut.r = (/\ _matchConditions(mRow, Single(Nested.e[1]))
                  /\ _matchConditions(mRow, Single(Nested.e[2])))

\* C2 amended: the equation holds when neither a nor b is rowID; when one of them is
\* rowID the result is that of the rowID selector alone.
C2_AndOfTwoKeys ==
    (IsComposite("AND") /\ Nested.k = "obj" /\ Len(Nested.e) = 2) =>
        IF "rowID" \in Keys(Nested)
        THEN mOut.r = _matchConditions(mRow, Obj(<< <<"rowID", Get(Nested, "rowID")>> >>))
        ELSE mOut.r = (/\ _matchConditions(mRow, Single(Nested.e[1]))
                       /\ _matchConditions(mRow, Single(Nested.e[2])))

\* C2 witness: an AND over two non-rowID keys of which exactly one matches.
C2_Witness ==
    /\ IsComposite("AND")
    /\ Nested.k = "obj"
    /\ Len(Nested.e) = 2
    /\ "rowID" \notin Keys(Nested)
    /\ ~mOut.r
    /\ _matchConditions(mRow, Single(Nested.e[1]))
    /\ ~_matchConditions(mRow, Single(Nested.e[2]))

\* C3: matches(R, {OR: {a: X, b: Y}}) = matches(R, {a: X}) \/ matches(R, {b: Y}) for
\* any two distinct sub-keys, and {OR: {}} matches no row.
C3_OrOfTwoKeys ==
    /\ (IsComposite("OR") /\ Nested.k = "obj" /\ Len(Nested.e) = 2) =>
            mOut.r = (\/ _matchConditions(mRow, Single(Nested.e[1]))
                      \/ _matchConditions(mRow, Single(Nested.e[2])))
    /\ (IsComposite("OR") /\ Nested.k = "obj" /\ Len(Nested.e) = 0) => ~mOut.r

\* C3 witness: an OR whose first sub-key fails and whose second sub-key matches.
C3_Witness ==
    /\ IsComposite("OR")
    /\ Nested.k = "obj"
    /\ Len(Nested.e) = 2
    /\ mOut.r
    /\ ~_matchConditions(mRow, Single(Nested.e[1]))
    /\ _matchConditions(mRow, Single(Nested.e[2]))

\* C4: {NOT: C} is the negation of C as a whole, and {NOT: {NOT: C}} has the result
\* of C, for every C: empty, absent, a rowID selector, or several keys.
C4_NotNegates ==
    /\ IsComposite("NOT") => mOut.r = ~_matchConditions(mRow, Nested)
    /\ ( /\ IsComposite("NOT")
         /\ Nested.k = "obj"
         /\ Len(Nested.e) = 1
         /\ Nested.e[1][1] = "NOT" ) =>
            mOut.r = _matchConditions(mRow, Nested.e[1][2])

\* C4 witness: a double negation of a two-key condition one clause of which fails.
C4_Witness ==
    /\ IsComposite("NOT")
    /\ Nested.k = "obj"
    /\ Len(Nested.e) = 1
    /\ Nested.e[1][1] = "NOT"
    /\ Nested.e[1][2].k = "obj"
    /\ Len(Nested.e[1][2].e) = 2
    /\ ~mOut.r
    /\ _matchConditions(mRow, Single(Nested.e[1][2].e[1]))

---------------------------------------------------------------------------
(* Properties of the sheet operations, under Spec *)

Done(op) == last.op = op /\ last.handle

\* the loaded snapshot of the call and whether its data row at position r matched
SnapTable == getTable(last.snap)
Matched(r) ==
    /\ r >= 2
    /\ r <= Len(getDataRange(last.snap))
    /\ _matchConditions(SnapTable[r - 1], last.cond)

Positions == 1..(MaxRows + 2)
Columns == 1..Len(sheet[1])

\* C5: an empty or absent condition ({} or null/undefined) matches every row, so
\* getRowsFromTable(table, C) returns every row of the table, in table order.
C5_EmptyMatchesAll ==
    (Done("getRowsFromTable") /\ last.cond \in {Null, Obj(<<>>)}) =>
        /\ \A R \in MRows : _matchConditions(R, last.cond)
        /\ last.cols = NoCols => last.out = SnapTable
        /\ Len(last.out) = Len(SnapTable)

\* C5 witness: getRowsFromTable with {} on a table of at least two rows.
C5_Witness ==
    /\ Done("getRowsFromTable")
    /\ last.cond = Obj(<<>>)
    /\ last.cols = NoCols
    /\ Len(last.out) >= 2

\* the positions of the snapshot's rows that did not match, in their order
SurvivorPositions(snap) ==
    SelectSeq([i \in 1..(Len(snap) - 1) |-> i + 1], LAMBDA r : ~Matched(r))

\* C6: deleteRows issues its deleteRow calls in strictly descending position, one for
\* each row that matched in the snapshot and none for any other row; afterwards the
\* data rows are the snapshot's non-matching rows in their original order.
C6_DeleteDescending ==
    Done("deleteRows") =>
        /\ \A i \in 1..(Len(last.calls) - 1) : last.calls[i].n > last.calls[i + 1].n
        /\ {last.calls[i].n : i \in 1..Len(last.calls)} = {r \in Positions : Matched(r)}
        /\ LET left == SurvivorPositions(last.snap)
           IN  sheet = getDataRange(<<last.snap[1]>> \o
                                    [i \in 1..Len(left) |-> last.snap[left[i]]])

\* C6 witness: two rows are deleted from above a row that stays and has content.
C6_Witness ==
    /\ Done("deleteRows")
    /\ Len(last.calls) = 2
    /\ Len(last.snap) = 4
    /\ last.calls = <<Num(3), Num(2)>>
    /\ Len(sheet) = 2
    /\ sheet[2] = last.snap[4]
    /\ sheet[2] # last.snap[3]

\* C8 as stated: every operation that takes the sheet, called without it, fails with
\* the invalid-argument error and leaves the sheet untouched.
C8_MissingHandleInvalidArgument ==
    (last.op # "none" /\ ~last.handle) =>
        /\ last.err = InvalidArgument
        /\ sheet = last.snap

\* the columns C9 as stated says are written: those whose header names a key of data
NamedColumn(c) == Display(last.snap[1][c]) \in DOMAIN last.data

\* the columns the amended C9 says are written: the first column whose header cell
\* is the string of a key of data
FirstNamedColumn(c) ==
    /\ last.snap[1][c].t = "str"
    /\ last.snap[1][c].s \in DOMAIN last.data
    /\ \A j \in 1..(c - 1) : last.snap[1][j] # last.snap[1][c]

\* C9 as stated: after setValues each cell (r, c) holds data[c] if row r matched and
\* column c is a header of the sheet and a key of data, and its old value otherwise.
C9_UpdateEveryNamedColumn ==
    Done("setValues") =>
        \A r \in Positions, c \in Columns :
            CellAt(sheet, r, c) =
                IF Matched(r) /\ NamedColumn(c)
                THEN last.data[Display(last.snap[1][c])]
                ELSE CellAt(last.snap, r, c)

\* C9 amended: after setValues each cell (r, c) holds data[h] if row r matched and c
\* is the first column whose header cell is a string h that is a key of data, and its
\* old value otherwise: the header row, the non-matching rows and every other column
\* keep their values and no row moves; when no row matches nothing changes.
C9_UpdateFirstNamedColumn ==
    Done("setValues") =>
        /\ \A r \in Positions, c \in Columns :
              CellAt(sheet, r, c) =
                  IF Matched(r) /\ FirstNamedColumn(c)
                  THEN last.data[last.snap[1][c].s]
                  ELSE CellAt(last.snap, r, c)
        /\ (\A r \in Positions : ~Matched(r)) => sheet = last.snap

\* C9 witness: an update that rewrites a cell of one row and leaves another row, which
\* did not match, as it was.
C9_Witness ==
    /\ Done("setValues")
    /\ Len(last.snap) >= 3
    /\ \E r \in 2..Len(last.snap) : Matched(r) /\ CellAt(sheet, r, 1) # last.snap[r][1]
    /\ \E r \in 2..Len(last.snap) : ~Matched(r) /\ CellAt(sheet, r, 1) = last.snap[r][1]

\* C10 as stated: whatever the headers (one named rowID included), the row at data
\* position i (0-based) of getTable's result has rowID = i + 2, and a sheet without a
\* data row loads as the empty table.
C10_RowIDIsPosition ==
    Done("getTable") =>
        /\ Len(last.out) = Len(getDataRange(last.snap)) - 1
        /\ \A i \in 1..Len(last.out) : last.out[i].rowID = Num(i + 1)

---------------------------------------------------------------------------
(* Properties of highlighting, under HlSpec *)

\* row r is among the ids of the sequence ids
Lists(ids, r) == \E i \in 1..Len(ids) : ids[i].t = "num" /\ ids[i].n = r

\* C7 as stated: highlightRows paints exactly the matching rows and returns their
\* rowIDs; clearHighlight repaints exactly the row positions listed in the token,
\* whatever happened to the sheet in between.
C7_ClearTargetsTokenRows ==
    /\ (Done("highlightRows") /\ \E r \in Positions : Matched(r)) =>
            /\ ~token.null
            /\ \A r \in Positions : Matched(r) <=> Lists(last.calls, r)
            /\ \A r \in Positions : Matched(r) <=> Lists(token.rowIDs, r)
    /\ Done("clearHighlight") =>
            \A r \in Positions : Lists(last.out, r) <=> Lists(last.calls, r)

=============================================================================
